---- MODULE Spec2Model ----
(***************************************************************************)
(* Model of the mint_nft on-chain program: the instruction decoder         *)
(* (src/src/instruction.rs, src/src/processor.rs), the mint pipeline       *)
(* (src/src/processor/mint.rs) and the helpers of src/src/utils.rs.        *)
(*                                                                         *)
(* Text is modelled as the sequence of its UTF-8 bytes, an address as a    *)
(* string, the ledger as a function from addresses to account records.     *)
(***************************************************************************)
EXTENDS Integers, Sequences, FiniteSets, TLC

(***************************************************************************)
(* Bounds of the model.                                                    *)
(***************************************************************************)
\* longest uri / title (in bytes) of the instructions a client encodes
MaxStrLen == 1
\* longest buffer handed to the decoder in the codec specification
MaxBufLen == 10
\* longest seed, and longest seed path, handed to assert_derivation
MaxSeedLen == 1
MaxPathLen == 2

\* the bytes buffers are made of: 0 and 1 serve as tag, length byte, option
\* flag and ASCII text; 255 is an unknown tag, a bad flag and not UTF-8
Bytes == {0, 1, 255}
\* the bytes of the text a client puts into uri and title
TextBytes == {1}

BoundedSeq(S, n) == UNION {[1..k -> S] : k \in 0..n}

(***************************************************************************)
(* Instruction wire format: borsh, as derived for GameInstruction and      *)
(* MintNftArgs.                                                            *)
(***************************************************************************)
Drop(s, n) == SubSeq(s, n + 1, Len(s))
Take(s, n) == SubSeq(s, 1, n)

\* u32, little endian
U32Bytes(n) ==
    << n % 256, (n \div 256) % 256, (n \div 65536) % 256, (n \div 16777216) % 256 >>

\* the value of a u32 as far as a buffer of the model can hold that many
\* bytes: 65536 stands for every value from 65536 on
U32Value(b) ==
    IF b[3] # 0 \/ b[4] # 0 THEN 65536 ELSE b[1] + 256 * b[2]

InRange(b, lo, hi) == lo <= b /\ b <= hi

\* core::str::from_utf8, which String's deserializer applies to the bytes
RECURSIVE Utf8Valid(_)
Utf8Valid(s) ==
    IF s = << >> THEN TRUE
    ELSE LET b == s[1]
             n == Len(s)
             Cont(i) == i <= n /\ InRange(s[i], 128, 191)
         IN  IF b < 128 THEN Utf8Valid(Drop(s, 1))
             ELSE IF InRange(b, 194, 223)
                  THEN Cont(2) /\ Utf8Valid(Drop(s, 2))
             ELSE IF InRange(b, 224, 239)
                  THEN /\ Cont(2) /\ Cont(3)
                       /\ (b = 224 => s[2] >= 160)
                       /\ (b = 237 => s[2] <= 159)
                       /\ Utf8Valid(Drop(s, 3))
             ELSE IF InRange(b, 240, 244)
                  THEN /\ Cont(2) /\ Cont(3) /\ Cont(4)
                       /\ (b = 240 => s[2] >= 144)
                       /\ (b = 244 => s[2] <= 143)
                       /\ Utf8Valid(Drop(s, 4))
             ELSE FALSE

\* a failed read
Fail == [ok |-> FALSE]

\* String: u32 length, then that many bytes, which must be UTF-8
DeserializeString(buf) ==
    IF Len(buf) < 4 THEN Fail
    ELSE LET len  == U32Value(Take(buf, 4))
             rest == Drop(buf, 4)
         IN  IF Len(rest) < len THEN Fail
             ELSE IF ~Utf8Valid(Take(rest, len)) THEN Fail
             ELSE [ok |-> TRUE, val |-> Take(rest, len), rest |-> Drop(rest, len)]

SerializeString(s) == U32Bytes(Len(s)) \o s

\* Option<String>: flag byte 0 (None) or 1 (Some, the value follows)
None == [some |-> FALSE]
Some(v) == [some |-> TRUE, val |-> v]

DeserializeOptionString(buf) ==
    IF Len(buf) < 1 THEN Fail
    ELSE IF buf[1] = 0 THEN [ok |-> TRUE, val |-> None, rest |-> Drop(buf, 1)]
    ELSE IF buf[1] = 1
         THEN LET r == DeserializeString(Drop(buf, 1))
              IN  IF r.ok THEN [ok |-> TRUE, val |-> Some(r.val), rest |-> r.rest]
                  ELSE Fail
    ELSE Fail

SerializeOptionString(o) ==
    IF o.some THEN <<1>> \o SerializeString(o.val) ELSE <<0>>

\* struct MintNftArgs { uri: String, title: Option<String> }, fields in order
DeserializeMintNftArgs(buf) ==
    LET u == DeserializeString(buf)
    IN  IF ~u.ok THEN Fail
        ELSE LET t == DeserializeOptionString(u.rest)
             IN  IF ~t.ok THEN Fail
                 ELSE [ok |-> TRUE, val |-> [uri |-> u.val, title |-> t.val],
                       rest |-> t.rest]

SerializeMintNftArgs(a) ==
    SerializeString(a.uri) \o SerializeOptionString(a.title)

\* DeserializeGameInstruction that takes every variant index for Mint
DeserializeGameInstruction_AnyTag(buf) ==
    LET a == DeserializeMintNftArgs(Drop(buf, 1))
    IN  IF a.ok
        THEN [ok |-> TRUE, val |-> [tag |-> "Mint", args |-> a.val], rest |-> a.rest]
        ELSE Fail

\* enum GameInstruction { Mint(MintNftArgs) }: variant index byte, then fields
DeserializeGameInstruction(buf) ==
    IF Len(buf) < 1 THEN Fail
    ELSE IF buf[1] = 0
         THEN LET a == DeserializeMintNftArgs(Drop(buf, 1))
              IN  IF a.ok
                  THEN [ok |-> TRUE, val |-> [tag |-> "Mint", args |-> a.val],
                        rest |-> a.rest]
                  ELSE Fail
    ELSE Fail

SerializeGameInstruction(i) ==
    <<0>> \o SerializeMintNftArgs(i.args)

\* TryFromSlice that ignores unread bytes
TryFromSlice_IgnoringRest(buf) ==
    LET r == DeserializeGameInstruction(buf)
    IN  IF ~r.ok THEN Fail ELSE [ok |-> TRUE, val |-> r.val]

\* BorshDeserialize::try_from_slice: deserialize, then reject unread bytes
TryFromSlice(buf) ==
    LET r == DeserializeGameInstruction(buf)
    IN  IF ~r.ok THEN Fail
        ELSE IF r.rest # << >> THEN Fail
        ELSE [ok |-> TRUE, val |-> r.val]

\* utils::try_from_slice_unchecked: deserialize and ignore unread bytes
TryFromSliceUnchecked(buf) ==
    LET r == DeserializeGameInstruction(buf)
    IN  IF ~r.ok THEN Fail ELSE [ok |-> TRUE, val |-> r.val]

(***************************************************************************)
(* Addresses, the positional account list and the ledger.                  *)
(***************************************************************************)
AuthorityKey == "authority"
SignerKey == "signer"
MintKeys == {"mintA", "mintB"}
TokenProgram == "spl_token"
AssociatedTokenProgram == "spl_associated_token_account"
RentSysvar == "sysvar_rent"
SystemProgram == "system_program"
MetadataProgram == "mpl_token_metadata"

\* the program-derived addresses the external programs expect
AssociatedTokenAddress(wallet, mint) == "ata/" \o wallet \o "/" \o mint
MetadataAddress(mint) == "metadata/" \o mint
EditionAddress(mint) == "edition/" \o mint

LedgerKeys ==
    MintKeys \cup {AssociatedTokenAddress(SignerKey, m) : m \in MintKeys}
             \cup {MetadataAddress(m) : m \in MintKeys}
             \cup {EditionAddress(m) : m \in MintKeys}

AccountInfo(key, is_signer) == [key |-> key, is_signer |-> is_signer]

\* the account list of one transaction in the positional contract:
\* authority, signer, mint, associated token account, token program,
\* associated-token program, rent sysvar, system program, metadata program,
\* metadata account, edition account
OrderedAccounts(authority, mint, signerSigned, mintSigned) ==
    << AccountInfo(authority, authority = SignerKey /\ signerSigned),
       AccountInfo(SignerKey, signerSigned),
       AccountInfo(mint, mintSigned),
       AccountInfo(AssociatedTokenAddress(SignerKey, mint), FALSE),
       AccountInfo(TokenProgram, FALSE),
       AccountInfo(AssociatedTokenProgram, FALSE),
       AccountInfo(RentSysvar, FALSE),
       AccountInfo(SystemProgram, FALSE),
       AccountInfo(MetadataProgram, FALSE),
       AccountInfo(MetadataAddress(mint), FALSE),
       AccountInfo(EditionAddress(mint), FALSE) >>

\* number of accounts process_mint reads
NumAccounts == 11

\* the account lists a caller supplies: the ordered list or a prefix of it
AccountLists ==
    { Take(OrderedAccounts(a, m, s, ms), n) :
        a \in {AuthorityKey, SignerKey}, m \in MintKeys,
        s \in BOOLEAN, ms \in BOOLEAN, n \in 0..NumAccounts }

NoAccount == [kind |-> "none"]
EmptyLedger == [k \in LedgerKeys |-> NoAccount]

\* the keys among the passed account infos that carry signer privilege
Signers(infos) == {infos[i].key : i \in {j \in 1..Len(infos) : infos[j].is_signer}}

(***************************************************************************)
(* The instructions a client encodes and the buffers the host delivers:    *)
(* every encoding, every truncation of one, every encoding with another    *)
(* first byte, every encoding followed by one more byte.                   *)
(***************************************************************************)
Texts == BoundedSeq(TextBytes, MaxStrLen)

Instructions ==
    { [tag |-> "Mint", args |-> [uri |-> u, title |-> t]] :
        u \in Texts, t \in {None} \cup {Some(x) : x \in Texts} }

Encodings == {SerializeGameInstruction(i) : i \in Instructions}

Inputs ==
    Encodings
    \cup UNION {{Take(e, k) : k \in 0..Len(e)} : e \in Encodings}
    \cup {<<b>> \o Drop(e, 1) : e \in Encodings, b \in Bytes}
    \cup {e \o <<b>> : e \in Encodings, b \in Bytes}

(***************************************************************************)
(* The external programs, by the rules of their instructions.  Each rule   *)
(* takes the ledger, the instruction and the keys holding signer privilege *)
(* and yields the outcome and the ledger after it.                         *)
(***************************************************************************)
Ok == "Ok"
Accept(L) == [err |-> Ok, ledger |-> L]
Reject(e, L) == [err |-> e, ledger |-> L]

\* Rent::minimum_balance under the default rent of the host
MinimumBalance(size) == (128 + size) * 3480 * 2

\* system program, CreateAccount: payer and new account both sign, the new
\* address must be unused
SystemCreateAccount(L, ix, signers) ==
    IF ~({ix.from, ix.to} \subseteq signers)
    THEN Reject("MissingRequiredSignature", L)
    ELSE IF L[ix.to].kind # "none" THEN Reject("AccountAlreadyInUse", L)
    ELSE Accept([L EXCEPT ![ix.to] =
                   [kind |-> "uninitialized", owner |-> ix.owner,
                    space |-> ix.space, lamports |-> ix.lamports]])

\* token program, InitializeMint
TokenInitializeMint(L, ix, signers) ==
    LET a == L[ix.mint]
    IN  IF a.kind = "mint" THEN Reject("AlreadyInUse", L)
        ELSE IF a.kind # "uninitialized" \/ a.owner # TokenProgram \/ a.space # 82
             THEN Reject("InvalidAccountData", L)
        ELSE IF a.lamports < MinimumBalance(a.space) THEN Reject("NotRentExempt", L)
        ELSE Accept([L EXCEPT ![ix.mint] =
                       [kind |-> "mint", mint_authority |-> Some(ix.mint_authority),
                        freeze_authority |-> ix.freeze_authority,
                        decimals |-> ix.decimals, supply |-> 0]])

\* associated-token-account program, Create (fails when the account exists)
AssociatedTokenCreate(L, ix, signers) ==
    LET ata == AssociatedTokenAddress(ix.wallet, ix.mint)
    IN  IF ix.funder \notin signers THEN Reject("MissingRequiredSignature", L)
        ELSE IF L[ata].kind # "none" THEN Reject("IllegalOwner", L)
        ELSE IF L[ix.mint].kind # "mint" THEN Reject("InvalidMint", L)
        ELSE Accept([L EXCEPT ![ata] =
                       [kind |-> "token", mint |-> ix.mint, owner |-> ix.wallet,
                        amount |-> 0]])

\* token program, MintTo: only the mint authority set at InitializeMint may
\* mint, and it must sign
TokenMintTo(L, ix, signers) ==
    LET m == L[ix.mint]
        d == L[ix.account]
    IN  IF d.kind # "token" THEN Reject("UninitializedAccount", L)
        ELSE IF d.mint # ix.mint THEN Reject("MintMismatch", L)
        ELSE IF m.kind # "mint" THEN Reject("InvalidAccountData", L)
        ELSE IF ~m.mint_authority.some THEN Reject("FixedSupply", L)
        ELSE IF m.mint_authority.val # ix.authority THEN Reject("OwnerMismatch", L)
        ELSE IF ix.authority \notin signers THEN Reject("MissingRequiredSignature", L)
        ELSE Accept([L EXCEPT ![ix.account].amount = @ + ix.amount,
                              ![ix.mint].supply = @ + ix.amount])

\* metadata program, CreateMetadataAccountV2
MetadataCreate(L, ix, signers) ==
    LET m == L[ix.mint]
    IN  IF ix.metadata # MetadataAddress(ix.mint) THEN Reject("InvalidMetadataKey", L)
        ELSE IF m.kind # "mint" THEN Reject("Uninitialized", L)
        ELSE IF m.mint_authority # Some(ix.mint_authority)
             THEN Reject("InvalidMintAuthority", L)
        ELSE IF ~({ix.mint_authority, ix.payer} \subseteq signers)
             THEN Reject("NotMintAuthority", L)
        ELSE IF L[ix.metadata].kind # "none" THEN Reject("AlreadyInitialized", L)
        ELSE Accept([L EXCEPT ![ix.metadata] =
                       [kind |-> "metadata", mint |-> ix.mint,
                        update_authority |-> ix.update_authority,
                        name |-> ix.name, symbol |-> ix.symbol, uri |-> ix.uri,
                        creators |-> ix.creators,
                        seller_fee_basis_points |-> ix.seller_fee_basis_points,
                        is_mutable |-> ix.is_mutable]])

\* metadata program, CreateMasterEditionV3: needs the metadata of the mint,
\* a supply of exactly one and zero decimals; takes over the mint and
\* freeze authority
MasterEditionCreate(L, ix, signers) ==
    LET m  == L[ix.mint]
        md == L[ix.metadata]
    IN  IF ix.edition # EditionAddress(ix.mint) THEN Reject("InvalidEditionKey", L)
        ELSE IF md.kind # "metadata" THEN Reject("Uninitialized", L)
        ELSE IF md.mint # ix.mint THEN Reject("MintMismatch", L)
        ELSE IF m.kind # "mint" THEN Reject("Uninitialized", L)
        ELSE IF md.update_authority # ix.update_authority
                \/ ix.update_authority \notin signers
             THEN Reject("UpdateAuthorityIncorrect", L)
        ELSE IF m.mint_authority # Some(ix.mint_authority)
                \/ ix.mint_authority \notin signers
             THEN Reject("InvalidMintAuthority", L)
        ELSE IF L[ix.edition].kind # "none" THEN Reject("AlreadyInitialized", L)
        ELSE IF m.decimals # 0 THEN Reject("EditionMintDecimalsShouldBeZero", L)
        ELSE IF m.supply # 1 THEN Reject("EditionsMustHaveExactlyOneToken", L)
        ELSE Accept([L EXCEPT ![ix.edition] =
                       [kind |-> "master_edition", supply |-> 0,
                        max_supply |-> ix.max_supply],
                     ![ix.mint].mint_authority = Some(ix.edition),
                     ![ix.mint].freeze_authority = Some(ix.edition)])

\* the host routes an instruction to the program it names
Dispatch(L, ix, signers) ==
    CASE ix.op = "create_account" -> SystemCreateAccount(L, ix, signers)
      [] ix.op = "initialize_mint" -> TokenInitializeMint(L, ix, signers)
      [] ix.op = "create_associated_token_account" -> AssociatedTokenCreate(L, ix, signers)
      [] ix.op = "mint_to" -> TokenMintTo(L, ix, signers)
      [] ix.op = "create_metadata_accounts_v2" -> MetadataCreate(L, ix, signers)
      [] ix.op = "create_master_edition_v3" -> MasterEditionCreate(L, ix, signers)

\* the host's own reason to fail a call: the compute budget is used up
BudgetExceeded == "ComputationalBudgetExceeded"

\* Settle that keeps the working ledger whatever the outcome
Settle_Always(res, work, comm) == work

\* all-or-nothing commit: the ledger after a transaction is the working
\* ledger when the instruction succeeded and the committed one otherwise
Settle(res, work, comm) == IF res = Ok THEN work ELSE comm

(***************************************************************************)
(* State.                                                                  *)
(***************************************************************************)
VARIABLES
    pc,          \* position of the invocation in flight
    input,       \* instruction bytes of the invocation
    accounts,    \* account list of the invocation
    instruction, \* the decoded instruction
    calls,       \* the external calls emitted so far, each with its outcome
    result,      \* what process_instruction returned
    working,     \* the ledger as the invocation in flight sees it
    committed,   \* the ledger as committed by the host
    buf,         \* codec specification: the buffer under test
    decoded,     \* codec specification: what the decoder made of buf
    ucall,       \* helper specification: the helper call made
    uret         \* helper specification: what the call returned

vars == << pc, input, accounts, instruction, calls, result, working, committed,
           buf, decoded, ucall, uret >>
pipelineVars == << pc, input, accounts, instruction, calls, result, working, committed >>
codecVars == << buf, decoded >>
helperVars == << ucall, uret >>

NoInstruction == [tag |-> "none"]
NoCall == [fn |-> "none"]

Init ==
    /\ pc = "idle"
    /\ input = << >>
    /\ accounts = << >>
    /\ instruction = NoInstruction
    /\ calls = << >>
    /\ result = "none"
    /\ working = EmptyLedger
    /\ committed = EmptyLedger
    /\ buf = << >>
    /\ decoded = NoCall
    /\ ucall = NoCall
    /\ uret = NoCall

(***************************************************************************)
(* utils.rs: the account validators.                                       *)
(***************************************************************************)
\* assert_signer with the test inverted
assert_signer_Inverted(account_info) ==
    IF account_info.is_signer THEN "MissingRequiredSignature" ELSE Ok

assert_signer(account_info) ==
    IF ~account_info.is_signer THEN "MissingRequiredSignature" ELSE Ok

\* seeds and program ids of the derivations under test
SeedBytes == {1, 2}
ProgramIds == {1, 2}
Seeds == BoundedSeq(SeedBytes, MaxSeedLen)
Paths == BoundedSeq(Seeds, MaxPathLen)

\* the hasher is fed one seed after the other: it sees their concatenation
RECURSIVE Concat(_)
Concat(path) ==
    IF path = << >> THEN << >> ELSE path[1] \o Concat(Tail(path))

\* SHA-256 as a collision-free digest: a digest stands for the byte string
\* that was hashed, so that two digests are equal only for equal strings
Sha256(bytes) == [preimage |-> bytes]

RECURSIVE Sum(_)
Sum(bytes) == IF bytes = << >> THEN 0 ELSE bytes[1] + Sum(Tail(bytes))

\* whether a digest is a point of the ed25519 curve (holds of some digests)
OnCurve(d) == Sum(d.preimage) % 3 = 0

\* Pubkey::create_program_address: hash of seeds, program id and marker,
\* refused when it lies on the curve
CreateProgramAddress(path, program_id) ==
    LET d == Sha256(Concat(path) \o <<program_id>>)
    IN  IF OnCurve(d) THEN [ok |-> FALSE] ELSE [ok |-> TRUE, key |-> d]

\* Pubkey::find_program_address: the first bump from 255 down whose address
\* is off the curve
RECURSIVE TryFindProgramAddress(_, _, _)
TryFindProgramAddress(path, program_id, bump) ==
    LET r == CreateProgramAddress(Append(path, <<bump>>), program_id)
    IN  IF r.ok THEN [ok |-> TRUE, key |-> r.key, bump |-> bump]
        ELSE IF bump = 0 THEN [ok |-> FALSE]
        ELSE TryFindProgramAddress(path, program_id, bump - 1)

FindProgramAddress(path, program_id) == TryFindProgramAddress(path, program_id, 255)

\* assert_derivation that never compares the key
assert_derivation_Unchecked(program_id, account, path) ==
    LET r == FindProgramAddress(path, program_id)
    IN  IF ~r.ok THEN [ok |-> FALSE, err |-> "panic"]
        ELSE [ok |-> TRUE, bump |-> r.bump]

assert_derivation(program_id, account, path) ==
    LET r == FindProgramAddress(path, program_id)
    IN  IF ~r.ok THEN [ok |-> FALSE, err |-> "panic"]
        ELSE IF r.key # account.key THEN [ok |-> FALSE, err |-> "InvalidDerivedKey"]
        ELSE [ok |-> TRUE, bump |-> r.bump]

\* the accounts handed to the validators under test
DerivedKeys == {FindProgramAddress(q, p).key : q \in Paths, p \in ProgramIds}
ValidatorAccounts ==
    {AccountInfo(k, s) : k \in DerivedKeys \cup {Sha256(<< >>)}, s \in BOOLEAN}

(***************************************************************************)
(* processor/mint.rs: process_mint.                                        *)
(***************************************************************************)
authority_info(accs) == accs[1]
signer_info(accs) == accs[2]
mint_info(accs) == accs[3]
ata_info(accs) == accs[4]
token_program_info(accs) == accs[5]
ass_token_program_info(accs) == accs[6]
rent_info(accs) == accs[7]
system_info(accs) == accs[8]
metadata_program_info(accs) == accs[9]
metadata_info(accs) == accs[10]
edition_info(accs) == accs[11]

\* NextAccountInfos reading one account too few
NextAccountInfos_OffByOne(accs) ==
    IF Len(accs) < NumAccounts - 1 THEN "NotEnoughAccountKeys" ELSE Ok

\* the eleven next_account_info reads
NextAccountInfos(accs) ==
    IF Len(accs) < NumAccounts THEN "NotEnoughAccountKeys" ELSE Ok

\* Rent::from_account_info
RentFromAccountInfo(info) ==
    IF info.key # RentSysvar THEN "InvalidArgument" ELSE Ok

\* Prologue without the signer validation
Prologue_NoSignerCheck(accs) ==
    IF NextAccountInfos(accs) # Ok THEN NextAccountInfos(accs)
    ELSE RentFromAccountInfo(rent_info(accs))

\* Prologue that validates the signer as soon as its position is read,
\* before the remaining positions
Prologue_SignerFirst(accs) ==
    IF Len(accs) >= 2 /\ assert_signer(accs[2]) # Ok THEN assert_signer(accs[2])
    ELSE IF NextAccountInfos(accs) # Ok THEN NextAccountInfos(accs)
    ELSE RentFromAccountInfo(rent_info(accs))

\* everything process_mint does before its first external call: the account
\* reads, the signer validation, the rent read
Prologue(accs) ==
    IF NextAccountInfos(accs) # Ok THEN NextAccountInfos(accs)
    ELSE IF assert_signer(signer_info(accs)) # Ok THEN assert_signer(signer_info(accs))
    ELSE RentFromAccountInfo(rent_info(accs))

\* size of the mint account
MintSize == 82

\* spl_token::check_program_account, inside initialize_mint and mint_to
CheckProgramAccount(key) ==
    IF key # TokenProgram THEN "IncorrectProgramId" ELSE Ok

CreateAccountIx(accs) ==
    [op |-> "create_account", program |-> SystemProgram,
     from |-> signer_info(accs).key, to |-> mint_info(accs).key,
     lamports |-> MinimumBalance(MintSize), space |-> MintSize,
     owner |-> token_program_info(accs).key]

InitializeMintIx(accs) ==
    [op |-> "initialize_mint", program |-> token_program_info(accs).key,
     mint |-> mint_info(accs).key,
     mint_authority |-> authority_info(accs).key,
     freeze_authority |-> Some(authority_info(accs).key),
     decimals |-> 0]

CreateAssociatedTokenAccountIx(accs) ==
    [op |-> "create_associated_token_account", program |-> AssociatedTokenProgram,
     funder |-> signer_info(accs).key, wallet |-> signer_info(accs).key,
     mint |-> mint_info(accs).key]

\* MintToIx that mints two units
MintToIx_TwoUnits(accs) ==
    [op |-> "mint_to", program |-> token_program_info(accs).key,
     mint |-> mint_info(accs).key, account |-> ata_info(accs).key,
     authority |-> signer_info(accs).key,
     signer_pubkeys |-> <<signer_info(accs).key>>,
     amount |-> 2]

MintToIx(accs) ==
    [op |-> "mint_to", program |-> token_program_info(accs).key,
     mint |-> mint_info(accs).key, account |-> ata_info(accs).key,
     authority |-> signer_info(accs).key,
     signer_pubkeys |-> <<signer_info(accs).key>>,
     amount |-> 1]

\* "my_title", "my_symbol" and the arweave uri, as bytes
TitleText == <<109, 121, 95, 116, 105, 116, 108, 101>>
SymbolText == <<109, 121, 95, 115, 121, 109, 98, 111, 108>>
UriText ==
    <<104, 116, 116, 112, 115, 58, 47, 47, 97, 114, 119, 101, 97, 118, 101, 46,
      110, 101, 116, 47, 121, 53, 101, 53, 68, 74, 115, 105, 119, 72, 48, 115,
      95, 97, 121, 102, 77, 119, 89, 107, 45, 83, 110, 114, 90, 116, 86, 90,
      122, 72, 76, 81, 68, 83, 84, 90, 53, 100, 78, 82, 85, 72, 65>>

CreateMetadataIx(accs) ==
    [op |-> "create_metadata_accounts_v2", program |-> metadata_program_info(accs).key,
     metadata |-> metadata_info(accs).key, mint |-> mint_info(accs).key,
     mint_authority |-> signer_info(accs).key, payer |-> signer_info(accs).key,
     update_authority |-> signer_info(accs).key,
     name |-> TitleText, symbol |-> SymbolText, uri |-> UriText,
     creators |-> Some(<< [address |-> signer_info(accs).key, verified |-> FALSE,
                           share |-> 100] >>),
     seller_fee_basis_points |-> 1,
     update_authority_is_signer |-> TRUE,
     is_mutable |-> FALSE]

\* CreateMasterEditionIx that passes the edition account for the metadata
\* account and leaves the supply unlimited
CreateMasterEditionIx_WrongMetadata(accs) ==
    [op |-> "create_master_edition_v3", program |-> metadata_program_info(accs).key,
     edition |-> edition_info(accs).key, mint |-> mint_info(accs).key,
     update_authority |-> signer_info(accs).key,
     mint_authority |-> signer_info(accs).key,
     metadata |-> edition_info(accs).key, payer |-> signer_info(accs).key,
     max_supply |-> None]

CreateMasterEditionIx(accs) ==
    [op |-> "create_master_edition_v3", program |-> metadata_program_info(accs).key,
     edition |-> edition_info(accs).key, mint |-> mint_info(accs).key,
     update_authority |-> signer_info(accs).key,
     mint_authority |-> signer_info(accs).key,
     metadata |-> metadata_info(accs).key, payer |-> signer_info(accs).key,
     max_supply |-> Some(0)]

\* Try without the early return: the failure of a call is dropped
Try_IgnoringError(err, next) == next

\* the `?` after a fallible call: go on when it succeeded, return otherwise
Try(err, next) == IF err = Ok THEN next ELSE "returned"

\* InvokeStep that emits a failed call again instead of returning
InvokeStep_Retrying(step, built, ix, infos, next) ==
    /\ pc = step
    /\ \E hostOk \in BOOLEAN :
         LET r == IF hostOk THEN Dispatch(working, ix, Signers(infos))
                  ELSE Reject(BudgetExceeded, working)
         IN  /\ calls' = Append(calls, [ix |-> ix, status |-> r.err])
             /\ working' = r.ledger
             /\ pc' = IF r.err = Ok THEN next ELSE step
             /\ result' = IF pc' = "returned" THEN r.err ELSE result
    /\ UNCHANGED << input, accounts, instruction, committed >>
    /\ UNCHANGED << codecVars, helperVars >>

\* one `invoke(&instruction, &account_infos)?` of process_mint at position
\* step; built is the outcome of building the instruction
InvokeStep(step, built, ix, infos, next) ==
    /\ pc = step
    /\ IF built # Ok
       THEN /\ pc' = Try(built, next)
            /\ result' = IF pc' = "returned" THEN built ELSE result
            /\ UNCHANGED << calls, working >>
       ELSE \E hostOk \in BOOLEAN :
              LET r == IF hostOk THEN Dispatch(working, ix, Signers(infos))
                       ELSE Reject(BudgetExceeded, working)
              IN  /\ calls' = Append(calls, [ix |-> ix, status |-> r.err])
                  /\ working' = r.ledger
                  /\ pc' = Try(r.err, next)
                  /\ result' = IF pc' = "returned" THEN r.err ELSE result
    /\ UNCHANGED << input, accounts, instruction, committed >>
    /\ UNCHANGED << codecVars, helperVars >>

\* the host hands a transaction with one instruction to the program
HostInvoke ==
    /\ pc = "idle"
    /\ \E in \in Inputs, accs \in AccountLists :
         /\ input' = in
         /\ accounts' = accs
    /\ pc' = "process_instruction"
    /\ instruction' = NoInstruction
    /\ calls' = << >>
    /\ result' = "none"
    /\ working' = committed
    /\ UNCHANGED << committed, codecVars, helperVars >>

\* processor.rs: decode, then dispatch on the variant
ProcessInstruction ==
    /\ pc = "process_instruction"
    /\ LET r == TryFromSlice(input)
       IN  IF ~r.ok
           THEN /\ pc' = "returned"
                /\ result' = "BorshIoError"
                /\ UNCHANGED instruction
           ELSE /\ instruction' = r.val
                /\ pc' = "process_mint"
                /\ UNCHANGED result
    /\ UNCHANGED << input, accounts, calls, working, committed >>
    /\ UNCHANGED << codecVars, helperVars >>

\* mint.rs lines 20-37
ProcessMintPrologue ==
    /\ pc = "process_mint"
    /\ pc' = IF Prologue(accounts) = Ok THEN "create_account" ELSE "returned"
    /\ result' = IF pc' = "returned" THEN Prologue(accounts) ELSE result
    /\ UNCHANGED << input, accounts, instruction, calls, working, committed >>
    /\ UNCHANGED << codecVars, helperVars >>

\* CreateAccount that leaves out the call when the mint account is there
CreateAccount_IfAbsent ==
    IF pc = "create_account" /\ working[mint_info(accounts).key].kind # "none"
    THEN /\ pc' = "initialize_mint"
         /\ UNCHANGED << input, accounts, instruction, calls, result, working, committed >>
         /\ UNCHANGED << codecVars, helperVars >>
    ELSE InvokeStep("create_account", Ok, CreateAccountIx(accounts),
                    << signer_info(accounts), mint_info(accounts) >>,
                    "initialize_mint")

CreateAccount ==
    InvokeStep("create_account", Ok, CreateAccountIx(accounts),
               << signer_info(accounts), mint_info(accounts) >>,
               "initialize_mint")

InitializeMint ==
    InvokeStep("initialize_mint",
               CheckProgramAccount(token_program_info(accounts).key),
               InitializeMintIx(accounts),
               << authority_info(accounts), mint_info(accounts),
                  rent_info(accounts), token_program_info(accounts) >>,
               "create_associated_token_account")

\* CreateAssociatedTokenAccount that takes the account for present and
\* emits nothing
CreateAssociatedTokenAccount_Skipped ==
    /\ pc = "create_associated_token_account"
    /\ pc' = "mint_to"
    /\ UNCHANGED << input, accounts, instruction, calls, result, working, committed >>
    /\ UNCHANGED << codecVars, helperVars >>

CreateAssociatedTokenAccount ==
    InvokeStep("create_associated_token_account", Ok,
               CreateAssociatedTokenAccountIx(accounts),
               << signer_info(accounts), ata_info(accounts),
                  ass_token_program_info(accounts), mint_info(accounts),
                  token_program_info(accounts), system_info(accounts) >>,
               "mint_to")

MintTo ==
    InvokeStep("mint_to",
               CheckProgramAccount(token_program_info(accounts).key),
               MintToIx(accounts),
               << signer_info(accounts), ata_info(accounts), mint_info(accounts),
                  token_program_info(accounts), system_info(accounts) >>,
               "create_metadata_accounts_v2")

CreateMetadata ==
    InvokeStep("create_metadata_accounts_v2", Ok, CreateMetadataIx(accounts),
               << metadata_info(accounts), mint_info(accounts),
                  signer_info(accounts), metadata_program_info(accounts),
                  token_program_info(accounts), system_info(accounts),
                  rent_info(accounts) >>,
               "create_master_edition_v3")

\* the last call; Ok(()) follows it
CreateMasterEdition ==
    InvokeStep("create_master_edition_v3", Ok, CreateMasterEditionIx(accounts),
               << edition_info(accounts), mint_info(accounts),
                  signer_info(accounts), metadata_info(accounts),
                  metadata_program_info(accounts), token_program_info(accounts),
                  system_info(accounts), rent_info(accounts) >>,
               "returned")

\* the host commits the transaction or rolls it back
HostSettle ==
    /\ pc = "returned"
    /\ committed' = Settle(result, working, committed)
    /\ working' = committed'
    /\ pc' = "done"
    /\ UNCHANGED << input, accounts, instruction, calls, result >>
    /\ UNCHANGED << codecVars, helperVars >>

\* the transaction is over: nothing of it outlives it but the ledger
HostRetire ==
    /\ pc = "done"
    /\ pc' = "idle"
    /\ input' = << >>
    /\ accounts' = << >>
    /\ instruction' = NoInstruction
    /\ calls' = << >>
    /\ result' = "none"
    /\ UNCHANGED << working, committed, codecVars, helperVars >>

Next ==
    \/ HostInvoke
    \/ ProcessInstruction
    \/ ProcessMintPrologue
    \/ CreateAccount
    \/ InitializeMint
    \/ CreateAssociatedTokenAccount
    \/ MintTo
    \/ CreateMetadata
    \/ CreateMasterEdition
    \/ HostSettle
    \/ HostRetire

Spec == Init /\ [][Next]_vars

(***************************************************************************)
(* Codec specification: a client builds a buffer byte by byte and the      *)
(* decoder of process_instruction is applied to it.                        *)
(***************************************************************************)
AppendByte ==
    /\ decoded = NoCall
    /\ Len(buf) < MaxBufLen
    /\ \E b \in Bytes : buf' = Append(buf, b)
    /\ UNCHANGED << decoded, pipelineVars, helperVars >>

Decode ==
    /\ decoded = NoCall
    /\ decoded' = [fn |-> "try_from_slice", ret |-> TryFromSlice(buf)]
    /\ UNCHANGED << buf, pipelineVars, helperVars >>

NextCodec == AppendByte \/ Decode

SpecCodec == Init /\ [][NextCodec]_vars

(***************************************************************************)
(* Helper specification: the validators of utils.rs applied to accounts,   *)
(* program ids and seed paths.                                             *)
(***************************************************************************)
\* utils.rs: create_or_allocate_account_raw.  The new account's balance, the
\* payer's balance, the size and the rent sysvar's rate are drawn from
\* bounded sets; the host may abort at any one of the cross-program calls.
MaxSize == 1
MaxRate == 1
Sizes == 0..MaxSize

\* the account passed as rent sysvar: the sysvar with some rate, or another
\* account
RentSysvarInfos ==
    {[is_rent |-> TRUE, lamports_per_byte_year |-> r] : r \in 0..MaxRate}
        \cup {[is_rent |-> FALSE]}

\* Rent::from_account_info
RentFromSysvarInfo(info) ==
    IF info.is_rent THEN [ok |-> TRUE, val |-> info]
    ELSE [ok |-> FALSE, err |-> "InvalidArgument"]

\* Rent::minimum_balance: (overhead + size) * rate * exemption threshold
RentMinimumBalance(rent, size) == (128 + size) * rent.lamports_per_byte_year * 2

MaxMinimumBalance ==
    RentMinimumBalance([is_rent |-> TRUE, lamports_per_byte_year |-> MaxRate], MaxSize)
Balances == 0..(MaxMinimumBalance + 1)
PayerBalances == {0, MaxMinimumBalance + 1}

Max(a, b) == IF a >= b THEN a ELSE b
SaturatingSub(a, b) == IF a >= b THEN a - b ELSE 0

\* required_lamports without the floor of one lamport
required_lamports_NoFloor(rent, size, lamports) ==
    SaturatingSub(RentMinimumBalance(rent, size), lamports)

required_lamports(rent, size, lamports) ==
    SaturatingSub(Max(RentMinimumBalance(rent, size), 1), lamports)

PayerKey == "payer"
NewAccountKey == "new_account"

TransferIx(lamports) ==
    [op |-> "transfer", from |-> PayerKey, to |-> NewAccountKey, lamports |-> lamports]
AllocateIx(size) == [op |-> "allocate", account |-> NewAccountKey, space |-> size]
AssignIx(program_id) == [op |-> "assign", account |-> NewAccountKey, owner |-> program_id]

\* system program: Transfer, Allocate, Assign on the two accounts of the call;
\* st.new_signs says whether the new account carries signer privilege (by the
\* transaction or by the signer seeds)
SystemTransfer(st, ix) ==
    IF st.payer < ix.lamports THEN [err |-> "InsufficientFunds", st |-> st]
    ELSE [err |-> Ok,
          st |-> [st EXCEPT !.payer = @ - ix.lamports, !.lamports = @ + ix.lamports]]

SystemAllocate(st, ix) ==
    IF ~st.new_signs THEN [err |-> "MissingRequiredSignature", st |-> st]
    ELSE IF st.space > 0 \/ st.owner # SystemProgram
         THEN [err |-> "AccountAlreadyInUse", st |-> st]
    ELSE [err |-> Ok, st |-> [st EXCEPT !.space = ix.space]]

SystemAssign(st, ix) ==
    IF ~st.new_signs THEN [err |-> "MissingRequiredSignature", st |-> st]
    ELSE [err |-> Ok, st |-> [st EXCEPT !.owner = ix.owner]]

SystemDispatch(st, ix) ==
    CASE ix.op = "transfer" -> SystemTransfer(st, ix)
      [] ix.op = "allocate" -> SystemAllocate(st, ix)
      [] ix.op = "assign" -> SystemAssign(st, ix)

\* the cross-program calls of create_or_allocate_account_raw
RawCalls == 3

\* invoke(..)? and invoke_signed(..)?: skipped once an earlier call failed;
\* the host aborts the call numbered hostFailAt
RawInvoke(r, ix, hostFailAt) ==
    IF r.err # Ok THEN r
    ELSE LET o == IF Len(r.calls) + 1 = hostFailAt
                  THEN [err |-> BudgetExceeded, st |-> r.st]
                  ELSE SystemDispatch(r.st, ix)
         IN  [err |-> o.err,
              calls |-> Append(r.calls, [ix |-> ix, status |-> o.err]),
              st |-> o.st]

create_or_allocate_account_raw(program_id, st, rent_sysvar_info, size, hostFailAt) ==
    LET rent == RentFromSysvarInfo(rent_sysvar_info)
        r0 == [err |-> Ok, calls |-> << >>, st |-> st]
    IN  IF ~rent.ok THEN [r0 EXCEPT !.err = rent.err]
        ELSE LET required == required_lamports(rent.val, size, st.lamports)
                 r1 == IF required > 0
                       THEN RawInvoke(r0, TransferIx(required), hostFailAt)
                       ELSE r0
                 r2 == RawInvoke(r1, AllocateIx(size), hostFailAt)
             IN  RawInvoke(r2, AssignIx(program_id), hostFailAt)

CallCreateOrAllocateAccountRaw ==
    /\ ucall = NoCall
    /\ \E p \in ProgramIds, l \in Balances, pl \in PayerBalances, s \in Sizes,
          ri \in RentSysvarInfos, sg \in BOOLEAN, h \in 0..RawCalls :
         LET st == [payer |-> pl, lamports |-> l, space |-> 0,
                    owner |-> SystemProgram, new_signs |-> sg]
         IN  /\ ucall' = [fn |-> "create_or_allocate_account_raw", program_id |-> p,
                          st |-> st, rent_sysvar_info |-> ri, size |-> s,
                          hostFailAt |-> h]
             /\ uret' = [val |-> create_or_allocate_account_raw(p, st, ri, s, h)]
    /\ UNCHANGED << pipelineVars, codecVars >>

\* utils.rs: get_random and get_random_u8.  The clock sysvar is present with
\* some slot and timestamp, or absent.
MaxSlot == 1
MaxTime == 1
MaxDivisor == 258
SeedU8s == 0..255
Divisors == 0..MaxDivisor
Clocks ==
    {[ok |-> TRUE, slot |-> s, unix_timestamp |-> t] : s \in 0..MaxSlot, t \in 0..MaxTime}
        \cup {[ok |-> FALSE]}

\* DefaultHasher: write_u8(seed), write_u64(slot), write_i64(timestamp),
\* finish().  A fixed mixing of the three written values stands for the
\* digest; its width is cut to 16 bits, which leaves values on both sides of
\* the one-byte range.
HasherFinish(seed, slot, timestamp) ==
    ((seed * 257 + slot * 263 + timestamp * 269 + 1) * 30011) % 65536

get_random(seed, clock) ==
    IF ~clock.ok THEN [ok |-> FALSE, err |-> "UnsupportedSysvar"]
    ELSE [ok |-> TRUE, val |-> HasherFinish(seed, clock.slot, clock.unix_timestamp)]

\* (random % divisor) as u8; the remainder by zero panics
get_random_u8(seed, divisor, clock) ==
    LET random == get_random(seed, clock)
    IN  IF ~random.ok THEN random
        ELSE IF divisor = 0 THEN [ok |-> FALSE, err |-> "panic"]
        ELSE [ok |-> TRUE, val |-> (random.val % divisor) % 256]

CallGetRandomU8 ==
    /\ ucall = NoCall
    /\ \E s \in SeedU8s, d \in Divisors, c \in Clocks :
         /\ ucall' = [fn |-> "get_random_u8", seed |-> s, divisor |-> d, clock |-> c]
         /\ uret' = [val |-> get_random_u8(s, d, c)]
    /\ UNCHANGED << pipelineVars, codecVars >>

CallAssertSigner ==
    /\ ucall = NoCall
    /\ \E a \in ValidatorAccounts :
         /\ ucall' = [fn |-> "assert_signer", account |-> a]
         /\ uret' = [val |-> assert_signer(a)]
    /\ UNCHANGED << pipelineVars, codecVars >>

CallAssertDerivation ==
    /\ ucall = NoCall
    /\ \E p \in ProgramIds, a \in {v \in ValidatorAccounts : ~v.is_signer}, q \in Paths :
         /\ ucall' = [fn |-> "assert_derivation", program_id |-> p,
                      account |-> a, path |-> q]
         /\ uret' = [val |-> assert_derivation(p, a, q)]
    /\ UNCHANGED << pipelineVars, codecVars >>

NextHelpers ==
    \/ CallAssertSigner
    \/ CallAssertDerivation
    \/ CallCreateOrAllocateAccountRaw
    \/ CallGetRandomU8

SpecHelpers == Init /\ [][NextHelpers]_vars


(***************************************************************************)
(* Properties.                                                             *)
(***************************************************************************)
Emitted(op) == {i \in 1..Len(calls) : calls[i].ix.op = op}
Returned == pc \in {"returned", "done"}
InProcessMint == instruction.tag = "Mint"

\* C1: a mint-to call is emitted only after an initialize-mint call for the
\* same mint address was emitted earlier in the run and returned success
C1_MintToAfterInitializeMint ==
    \A i \in Emitted("mint_to") :
        \E j \in Emitted("initialize_mint") :
            /\ j < i
            /\ calls[j].ix.mint = calls[i].ix.mint
            /\ calls[j].status = Ok

C1_Witness == Emitted("mint_to") # {}

\* the order in which process_mint emits its calls
CallOrder ==
    << "create_account", "initialize_mint", "create_associated_token_account",
       "mint_to", "create_metadata_accounts_v2", "create_master_edition_v3" >>

\* C2: the calls emitted are a prefix of the fixed order, every call but the
\* last has succeeded, and a failed call is the last one and its error is
\* what process_mint returns
C2_FixedOrderFirstFailureTerminal ==
    /\ Len(calls) <= Len(CallOrder)
    /\ \A i \in 1..Len(calls) : calls[i].ix.op = CallOrder[i]
    /\ \A i \in 1..(Len(calls) - 1) : calls[i].status = Ok
    /\ (Len(calls) > 0 /\ calls[Len(calls)].status # Ok)
          => (Returned /\ result = calls[Len(calls)].status)

C2_Witness ==
    /\ pc = "done"
    /\ Len(calls) = 4
    /\ calls[4].status # Ok
    /\ result = calls[4].status

\* Scenario A: the list is complete and in the order of the contract, every
\* role that has to sign has signed, and the accounts to create are empty
ScenarioA ==
    /\ InProcessMint
    /\ Len(accounts) = NumAccounts
    /\ signer_info(accounts).is_signer
    /\ accounts = OrderedAccounts(authority_info(accounts).key,
                                  mint_info(accounts).key, TRUE, TRUE)
    /\ \A a \in {mint_info(accounts), ata_info(accounts),
                 metadata_info(accounts), edition_info(accounts)} :
          committed[a.key].kind = "none"

\* C3: in scenario A, whatever the authority account at position 0, the
\* pipeline returns success with one unit in the associated token account
\* and a metadata and an edition account of the mint (the host not running
\* out of budget)
C3_ScenarioASucceeds ==
    (pc = "returned" /\ ScenarioA /\ result # BudgetExceeded)
       => /\ result = Ok
          /\ working[ata_info(accounts).key].kind = "token"
          /\ working[ata_info(accounts).key].amount = 1
          /\ working[metadata_info(accounts).key].kind = "metadata"
          /\ working[metadata_info(accounts).key].mint = mint_info(accounts).key
          /\ working[edition_info(accounts).key].kind = "master_edition"

\* C4: with a complete list whose signer account has not signed,
\* process_mint returns the missing-signature error, emits no call and
\* changes no account
C4_ScenarioBMissingSignature ==
    (Returned /\ InProcessMint /\ Len(accounts) = NumAccounts
              /\ ~signer_info(accounts).is_signer)
       => /\ result = "MissingRequiredSignature"
          /\ calls = << >>
          /\ working = committed

C4_Witness ==
    /\ pc = "done"
    /\ InProcessMint
    /\ Len(accounts) = NumAccounts
    /\ ~signer_info(accounts).is_signer
    /\ result = "MissingRequiredSignature"

\* C5: with a truncated list process_mint returns NotEnoughAccountKeys and
\* no call to the metadata program has been emitted
C5_ScenarioCNotEnoughAccountKeys ==
    (InProcessMint /\ Len(accounts) < NumAccounts)
       => /\ Emitted("create_metadata_accounts_v2") = {}
          /\ Emitted("create_master_edition_v3") = {}
          /\ (Returned => result = "NotEnoughAccountKeys")

C5_Witness ==
    /\ pc = "done"
    /\ InProcessMint
    /\ Len(accounts) = NumAccounts - 1
    /\ result = "NotEnoughAccountKeys"

\* C6: for an empty buffer and for a buffer whose first byte is not the tag
\* of Mint, process_instruction returns the decode error, process_mint is
\* not entered, no call is emitted and no account is touched
C6_ScenarioDDecodeError ==
    (pc \notin {"idle", "process_instruction"} /\ (input = << >> \/ input[1] # 0))
       => /\ Returned
          /\ result = "BorshIoError"
          /\ instruction = NoInstruction
          /\ calls = << >>
          /\ working = committed

C6_Witness ==
    /\ pc = "done"
    /\ Len(input) > 1
    /\ input[1] # 0
    /\ result = "BorshIoError"

\* C7: the committed ledger changes only in the step in which the host
\* settles an invocation that returned success, and then to the working
\* ledger; an invocation that returned an error leaves it as it was
C7_AllOrNothing ==
    [][ /\ (committed' # committed)
             => (pc = "returned" /\ pc' = "done" /\ result = Ok
                   /\ committed' = working)
        /\ (pc = "returned" /\ result # Ok)
             => (committed' = committed /\ working' = committed) ]_vars

C7_Witness ==
    /\ pc = "done"
    /\ result # Ok
    /\ Len(calls) >= 2
    /\ calls[1].status = Ok
    /\ working = committed
    /\ committed[mint_info(accounts).key].kind = "none"

\* C8: a buffer the decoder accepts is the encoding of what it decodes to
C8_RoundTrip ==
    (decoded # NoCall /\ decoded.ret.ok)
       => SerializeGameInstruction(decoded.ret.val) = buf

C8_Witness ==
    /\ decoded # NoCall
    /\ decoded.ret.ok
    /\ decoded.ret.val.args.title.some

\* C9: assert_signer returns the missing-signature error exactly when the
\* signer flag of the account is false, success otherwise, and no account
\* changes in the call
C9_AssertSigner ==
    [][ (ucall'.fn = "assert_signer" /\ ucall # ucall')
           => /\ (uret'.val = "MissingRequiredSignature")
                    <=> ~ucall'.account.is_signer
              /\ ucall'.account.is_signer => uret'.val = Ok
              /\ working' = working
              /\ committed' = committed ]_vars

C9_Witness ==
    /\ ucall.fn = "assert_signer"
    /\ ucall.account.is_signer
    /\ uret.val = Ok

\* the derivation succeeded for the account, program id and path of ucall
DerivationSucceeded == ucall.fn = "assert_derivation" /\ uret.val.ok

\* assert_derivation returns the bump exactly when the key of the account
\* is the address derived from program id and path, InvalidDerivedKey
\* otherwise
DerivationDecides ==
    ucall.fn = "assert_derivation"
       => LET r == FindProgramAddress(ucall.path, ucall.program_id)
          IN  IF ucall.account.key = r.key
              THEN uret.val = [ok |-> TRUE, bump |-> r.bump]
              ELSE uret.val = [ok |-> FALSE, err |-> "InvalidDerivedKey"]

\* C10 as stated: the account that passes for one program id and seed path
\* is refused for every other program id and every other seed path
C10_DerivationUniquePerPath ==
    /\ DerivationDecides
    /\ DerivationSucceeded
         => \A p \in ProgramIds, q \in Paths :
               (p # ucall.program_id \/ q # ucall.path)
                  => assert_derivation(p, ucall.account, q)
                        = [ok |-> FALSE, err |-> "InvalidDerivedKey"]

\* C10 amended: the account that passes for one program id and seed path is
\* refused for every other program id and for every seed path whose seeds
\* concatenate to other bytes
C10_DerivationUniquePerBytes ==
    /\ DerivationDecides
    /\ DerivationSucceeded
         => \A p \in ProgramIds, q \in Paths :
               (p # ucall.program_id \/ Concat(q) # Concat(ucall.path))
                  => assert_derivation(p, ucall.account, q)
                        = [ok |-> FALSE, err |-> "InvalidDerivedKey"]

C10_Witness ==
    /\ DerivationSucceeded
    /\ Len(ucall.path) = 2
    /\ uret.val.bump < 255

\* the supply of a mint, and the balance of a token account, in a ledger
SupplyOf(L, key) == IF L[key].kind = "mint" THEN L[key].supply ELSE 0
AmountOf(L, key) == IF L[key].kind = "token" THEN L[key].amount ELSE 0

\* the units the mint-to calls of the run have minted
RECURSIVE UnitsOfCalls(_)
UnitsOfCalls(cs) ==
    IF cs = << >> THEN 0
    ELSE (IF cs[1].ix.op = "mint_to" /\ cs[1].status = Ok THEN cs[1].ix.amount ELSE 0)
         + UnitsOfCalls(Tail(cs))

\* C11: at most one mint-to call is emitted, for one unit and into the
\* associated token account of position 3; the invocation has minted no
\* unit or one, and one when it returned success
C11_ExactlyOneUnit ==
    /\ Cardinality(Emitted("mint_to")) <= 1
    /\ \A i \in Emitted("mint_to") :
          /\ calls[i].ix.amount = 1
          /\ calls[i].ix.account = ata_info(accounts).key
    /\ UnitsOfCalls(calls) \in {0, 1}
    /\ (pc \in {"returned", "done"} /\ result = Ok) => UnitsOfCalls(calls) = 1
    /\ (pc \notin {"idle", "done"} /\ Len(accounts) = NumAccounts)
          => /\ SupplyOf(working, mint_info(accounts).key)
                  = SupplyOf(committed, mint_info(accounts).key) + UnitsOfCalls(calls)
             /\ AmountOf(working, ata_info(accounts).key)
                  = AmountOf(committed, ata_info(accounts).key) + UnitsOfCalls(calls)

C11_Witness ==
    /\ pc = "done"
    /\ result = Ok
    /\ UnitsOfCalls(calls) = 1
    /\ AmountOf(committed, ata_info(accounts).key) = 1

\* the initialize-mint call is for the mint of position 2, with no decimals
\* and the authority of position 0 as mint and freeze authority
InitializeMintAsSpecified ==
    \A j \in Emitted("initialize_mint") :
        /\ calls[j].ix.mint = mint_info(accounts).key
        /\ calls[j].ix.decimals = 0
        /\ calls[j].ix.mint_authority = authority_info(accounts).key
        /\ calls[j].ix.freeze_authority = Some(authority_info(accounts).key)

\* C12: initialize-mint is as specified, and the authority the mint-to call
\* names is the account initialize-mint installed as mint authority
C12_MintToByInstalledAuthority ==
    /\ InitializeMintAsSpecified
    /\ \A i \in Emitted("mint_to") :
          \A j \in Emitted("initialize_mint") :
              calls[i].ix.authority = calls[j].ix.mint_authority

\* the run is at step 4, about to create the associated token account
AtStep4 == pc = "create_associated_token_account"
\* the run has gone past step 4
PastStep4 ==
    pc \in {"mint_to", "create_metadata_accounts_v2", "create_master_edition_v3"}

C14_MasterEditionAfterMetadata ==
    \A i \in Emitted("create_master_edition_v3") :
        /\ calls[i].ix.max_supply = Some(0)
        /\ \E j \in Emitted("create_metadata_accounts_v2") :
              /\ j < i
              /\ calls[j].status = Ok
              /\ calls[i].ix.mint = calls[j].ix.mint
              /\ calls[i].ix.metadata = calls[j].ix.metadata

C14_Witness ==
    /\ Emitted("create_master_edition_v3") # {}
    /\ pc = "done"
    /\ result = Ok
    /\ committed[edition_info(accounts).key].max_supply = Some(0)

\* C15: a create-metadata call attaches exactly one creator, the signer
\* account, unverified with share 100, marks the metadata immutable, and
\* carries the uri and the title decoded from the Mint instruction
C15_MetadataFromInstruction ==
    \A i \in Emitted("create_metadata_accounts_v2") :
        /\ calls[i].ix.creators =
              Some(<< [address |-> signer_info(accounts).key,
                       verified |-> FALSE, share |-> 100] >>)
        /\ calls[i].ix.is_mutable = FALSE
        /\ instruction.tag = "Mint"
        /\ calls[i].ix.uri = instruction.args.uri
        /\ instruction.args.title # None
              => calls[i].ix.name = instruction.args.title.val

RawCallsOf(op) == {i \in 1..Len(uret.val.calls) : uret.val.calls[i].ix.op = op}

\* C16: create_or_allocate_account_raw, once the rent is read, emits a
\* transfer from the payer exactly when the new account's balance is below
\* max(minimum_balance(size), 1), for exactly the shortfall; after a
\* successful return the new account holds at least minimum_balance(size);
\* allocate and then assign follow, each emitted exactly when every call
\* before it succeeded
C16_CreateOrAllocate ==
    (ucall.fn = "create_or_allocate_account_raw" /\ ucall.rent_sysvar_info.is_rent)
    => LET cs == uret.val.calls
           min == RentMinimumBalance(ucall.rent_sysvar_info, ucall.size)
           floor == IF min >= 1 THEN min ELSE 1
           before(i) == \A j \in 1..(i - 1) : cs[j].status = Ok
       IN  /\ (RawCallsOf("transfer") # {}) <=> (ucall.st.lamports < floor)
           /\ \A i \in RawCallsOf("transfer") :
                 /\ i = 1
                 /\ cs[i].ix.from = PayerKey
                 /\ cs[i].ix.to = NewAccountKey
                 /\ cs[i].ix.lamports = floor - ucall.st.lamports
           /\ uret.val.err = Ok => uret.val.st.lamports >= min
           /\ (RawCallsOf("allocate") # {})
                 <=> \A j \in RawCallsOf("transfer") : cs[j].status = Ok
           /\ \A i \in RawCallsOf("allocate") :
                 /\ i = Cardinality(RawCallsOf("transfer")) + 1
                 /\ cs[i].ix.space = ucall.size
           /\ (RawCallsOf("assign") # {})
                 <=> /\ RawCallsOf("allocate") # {}
                     /\ \A j \in RawCallsOf("transfer") \cup RawCallsOf("allocate") :
                           cs[j].status = Ok
           /\ \A i \in RawCallsOf("assign") :
                 /\ i = Len(cs)
                 /\ i - 1 \in RawCallsOf("allocate")
                 /\ before(i)
                 /\ cs[i].ix.owner = ucall.program_id
           /\ uret.val.err = Ok
                 <=> (RawCallsOf("assign") # {} /\ \A j \in 1..Len(cs) : cs[j].status = Ok)

\* the floor of one lamport at work: no rent is due, the account is empty,
\* one lamport is transferred, and the three calls succeed
C16_Witness ==
    /\ ucall.fn = "create_or_allocate_account_raw"
    /\ ucall.rent_sysvar_info.is_rent
    /\ RentMinimumBalance(ucall.rent_sysvar_info, ucall.size) = 0
    /\ ucall.st.lamports = 0
    /\ uret.val.err = Ok
    /\ Len(uret.val.calls) = RawCalls
    /\ uret.val.calls[1].ix.lamports = 1
    /\ uret.val.st.lamports = 1

\* C17: for every seed byte and every divisor greater than 0, get_random_u8
\* returns the value of get_random(seed) reduced modulo divisor, and the
\* result is strictly less than divisor
C17_RandomModuloDivisor ==
    (ucall.fn = "get_random_u8" /\ ucall.divisor > 0 /\ ucall.clock.ok)
    => /\ uret.val.ok
       /\ uret.val.val = get_random(ucall.seed, ucall.clock).val % ucall.divisor
       /\ uret.val.val < ucall.divisor

\* the invocation in progress has read its accounts and names a mint account
\* that is already in the committed ledger
MintAlreadyCommitted ==
    /\ pc \in {"create_account", "initialize_mint", "create_associated_token_account",
               "mint_to", "create_metadata_accounts_v2", "create_master_edition_v3",
               "returned"}
    /\ Len(accounts) = NumAccounts
    /\ committed[mint_info(accounts).key].kind # "none"

\* C18: over the invocations the host runs one after another, an invocation
\* returns success only for a mint account that was not committed before and
\* commits it with supply one; a committed mint account never changes again;
\* an invocation naming a committed mint account emits nothing after a
\* failed create-account call and does not return success; so the committed
\* supply of a mint never exceeds one
C18_AtMostOneSuccessPerMint ==
    [][ /\ \A m \in MintKeys :
             /\ SupplyOf(committed', m) <= 1
             /\ committed[m].kind # "none" => committed'[m] = committed[m]
        /\ (pc = "returned" /\ pc' = "done" /\ result = Ok)
             => /\ committed[mint_info(accounts).key].kind = "none"
                /\ SupplyOf(committed', mint_info(accounts).key) = 1
        /\ MintAlreadyCommitted'
             => /\ Len(calls') <= 1
                /\ \A i \in 1..Len(calls') :
                      /\ calls'[i].ix.op = "create_account"
                      /\ calls'[i].status # Ok
                /\ pc' = "returned" => result' # Ok ]_vars

C18_Witness ==
    /\ pc = "returned"
    /\ Len(accounts) = NumAccounts
    /\ SupplyOf(committed, mint_info(accounts).key) = 1
    /\ Len(calls) = 1
    /\ calls[1].ix.op = "create_account"
    /\ calls[1].status = "AccountAlreadyInUse"
    /\ result = "AccountAlreadyInUse"

\* C19: with fewer than 11 accounts process_mint returns NotEnoughAccountKeys
\* whatever the signer flag is, having emitted no external call at all and
\* changed no account
C19_ShortListPrecedence ==
    (InProcessMint /\ Len(accounts) < NumAccounts)
       => /\ calls = << >>
          /\ working = committed
          /\ pc \in {"process_mint", "returned", "done"}
          /\ Returned => result = "NotEnoughAccountKeys"

\* a short list that holds the signer position, unsigned
C19_Witness ==
    /\ pc = "done"
    /\ InProcessMint
    /\ Len(accounts) >= 2
    /\ Len(accounts) < NumAccounts
    /\ ~accounts[2].is_signer
    /\ result = "NotEnoughAccountKeys"
    /\ calls = << >>

====
